---------------------------- MODULE Spec2Model ----------------------------
(***************************************************************************)
(* The HTTP layer of the Lead Intelligence API (src/app.py): ten route     *)
(* handlers that construct an engine per request, run a pipeline and shape *)
(* the report into a response.  The engines (ml_engine, geo_engine) are    *)
(* outside src/: what run_all_models / run_complete_analysis / connect_db  *)
(* / connect yield is an input, drawn from every outcome a call can have   *)
(* (a report with status success or failed, or an exception).              *)
(***************************************************************************)
EXTENDS Integers, Sequences, FiniteSets, TLC

(***************************************************************************)
(* Bounds and program constants                                            *)
(***************************************************************************)
MaxLimit == 100
NumReq == 2
MaxLeads == 3
MaxNegLimit == 2

Scores == {30, 60, 90}
Reqs == 1..NumReq
Limits == ((0 - MaxNegLimit)..(MaxLeads + 1))
            \cup {MaxLimit - 1, MaxLimit, MaxLimit + 1, MaxLimit + 2}

\* Python's None, as results.get(key) yields it for an absent key.
None == "None"
\* The literals {} and [] used as .get defaults.
EmptyDict == <<>>
EmptyList == <<>>

MLEndpoints == {"score_all_leads", "get_summary", "get_top_leads",
                "get_at_risk_leads", "get_recommendations"}
GeoEndpoints == {"complete_geographical_analysis", "get_country_analysis",
                 "get_market_recommendations"}
PipelineEndpoints == MLEndpoints \cup GeoEndpoints
Endpoints == PipelineEndpoints \cup {"health_check", "root"}

Min(a, b) == IF a < b THEN a ELSE b
Max(a, b) == IF a > b THEN a ELSE b

(***************************************************************************)
(* Reports of the engines.  A report is a dict: a record whose domain is   *)
(* the set of keys present.  Lists are sequences, a dict-valued field is a *)
(* sequence of <<key, value>> pairs.                                       *)
(***************************************************************************)
RECURSIVE DescLists(_)
\* The lists of at most n scores in non-increasing order (top_leads is
\* ranked by score, highest first).
DescLists(n) ==
    IF n = 0 THEN {<<>>}
    ELSE LET shorter == DescLists(n - 1)
             ext == {p \in shorter \X Scores :
                        /\ Len(p[1]) = n - 1
                        /\ (n = 1 \/ p[1][n - 1] >= p[2])}
         IN shorter \cup {Append(p[1], p[2]) : p \in ext}

Timestamps == {"2026-01-01T00:00:00", "2026-01-02T00:00:00"}
ErrorStrings == {"Database connection failed", ""}
ExceptionMessages == {"pyodbc.Error"}

\* MLReport { summary, top_leads, at_risk_leads, recommendations, timestamp,
\* status } of a successful run.
MLSuccessReports ==
    {[status |-> "success",
      summary |-> << <<"total_leads", Len(tl)>> >>,
      top_leads |-> tl,
      at_risk_leads |-> ar,
      recommendations |-> rc,
      timestamp |-> ts] :
        tl \in DescLists(MaxLeads),
        ar \in {<<>>, <<"lead-7">>},
        rc \in {<<>>, <<"call lead-7", "email lead-2">>},
        ts \in Timestamps}

\* GeoReport { country_analysis, recommendations, summary, timestamp, status }
\* of a successful run.
GeoSuccessReports ==
    {[status |-> "success",
      country_analysis |-> ca,
      recommendations |-> rc,
      summary |-> sm,
      timestamp |-> ts] :
        ca \in {<<>>, << <<"UAE", 80>>, <<"India", 20>> >>},
        rc \in {<<>>, <<"expand UAE">>},
        sm \in {<<>>, << <<"total_countries", 2>> >>},
        ts \in Timestamps}

\* A report that carries a status only: every other key is absent.
BareSuccessReport == [status |-> "success"]

\* On failed, an error string is populated (or the key is missing), and the
\* other fields are absent or empty.
FailedReports ==
    {[status |-> "failed", error |-> e] : e \in ErrorStrings}
        \cup {[status |-> "failed"]}
        \cup {[status |-> "failed", error |-> e, timestamp |-> ts] :
                 e \in ErrorStrings \ {""}, ts \in Timestamps}

Returned(report) == [kind |-> "return", report |-> report]
Raised(msg) == [kind |-> "raise", msg |-> msg]

\* Everything a call of run_all_models can yield.
MLOutcomes ==
    {Returned(rep) : rep \in MLSuccessReports \cup {BareSuccessReport}
                                \cup FailedReports}
        \cup {Raised(m) : m \in ExceptionMessages}

\* Everything a call of run_complete_analysis can yield.
GeoOutcomes ==
    {Returned(rep) : rep \in GeoSuccessReports \cup {BareSuccessReport}
                                \cup FailedReports}
        \cup {Raised(m) : m \in ExceptionMessages}

OutcomesOf(ep) == IF ep \in MLEndpoints THEN MLOutcomes ELSE GeoOutcomes

(***************************************************************************)
(* State                                                                   *)
(***************************************************************************)
VARIABLES
    settings,     \* the module-level Settings() object
    strStyle,     \* what str() of an HTTPException yields in this build
    pc,           \* pc[r]: where request r is in its handler
    endpoint,     \* endpoint[r]: the route request r called
    limit,        \* limit[r]: the path parameter of get_top_leads
    engine,       \* engine[e]: the in-flight result held by engine instance e
    results,      \* results[r]: the handler's local `results`
    response,     \* response[r]: what the client of r receives
    constructed,  \* constructed[r]: an engine was constructed for r
    invoked,      \* invoked[r]: the pipeline entry point was called for r
    held,         \* held[r]: repository connections r acquired and not released
    own           \* own[r]: what r's own pipeline run produced

vars == <<settings, strStyle, pc, endpoint, limit, engine, results, response,
          constructed, invoked, held, own>>

(***************************************************************************)
(* Exceptions and responses                                                *)
(***************************************************************************)
HTTP_400_BAD_REQUEST == 400
HTTP_500_INTERNAL_SERVER_ERROR == 500
HTTP_200_OK == 200

Get(d, key, default) == IF key \in DOMAIN d THEN d[key] ELSE default

\* HTTPException(status_code, detail): a detail of None becomes the phrase of
\* the status code.
HTTPException(status_code, detail) ==
    [status_code |-> status_code,
     detail |-> IF detail = None THEN "Internal Server Error" ELSE detail]

\* str(e) of an HTTPException built with keyword arguments: "<code>: <detail>"
\* where the class defines __str__, the empty string where it inherits
\* Exception.__str__ (no positional args).
StrOfHTTPException(e) ==
    IF strStyle = "status_detail" THEN "500: " \o e.detail ELSE ""

\* A handler's normal return: the dict is sent with status 200.
Ok(body) == [status_code |-> HTTP_200_OK, body |-> body]

NoResponse == [status_code |-> 0]

\* What a try body ends in.
Return(value) == [kind |-> "return", value |-> value]
RaiseHTTP(e) == [kind |-> "http", exc |-> e]
RaiseOther(msg) == [kind |-> "raise", msg |-> msg]

\* try: ... except HTTPException: raise
\*          except Exception as e: raise HTTPException(500, detail=str(e))
ExceptHTTPThenException(body) ==
    CASE body.kind = "return" -> Ok(body.value)
      [] body.kind = "http" -> body.exc
      [] body.kind = "raise" ->
            HTTPException(HTTP_500_INTERNAL_SERVER_ERROR, body.msg)

\* try: ... except Exception as e: raise HTTPException(500, detail=str(e))
\* HTTPException is an Exception, so one raised in the body is caught too.
ExceptException(body) ==
    CASE body.kind = "return" -> Ok(body.value)
      [] body.kind = "http" ->
            HTTPException(HTTP_500_INTERNAL_SERVER_ERROR,
                          StrOfHTTPException(body.exc))
      [] body.kind = "raise" ->
            HTTPException(HTTP_500_INTERNAL_SERVER_ERROR, body.msg)

\* A slice that keeps one entry too many: xs[:n + 1].
SliceToInclusive(xs, n) ==
    IF n + 1 >= 0 THEN SubSeq(xs, 1, Min(n + 1, Len(xs)))
    ELSE SubSeq(xs, 1, Max(Len(xs) + n + 1, 0))

\* xs[:n] of Python: a negative n counts from the end.
SliceTo(xs, n) ==
    IF n >= 0 THEN SubSeq(xs, 1, Min(n, Len(xs)))
    ELSE SubSeq(xs, 1, Max(Len(xs) + n, 0))

(***************************************************************************)
(* The handlers, as functions of what the engine call yielded              *)
(* (out: Raised(msg) for an exception of the constructor or of the run,    *)
(* Returned(report) otherwise).                                            *)
(***************************************************************************)
score_all_leads(out) ==
    ExceptHTTPThenException(
        IF out.kind = "raise" THEN RaiseOther(out.msg)
        ELSE LET res == out.report
             IN IF Get(res, "status", None) = "failed"
                THEN RaiseHTTP(HTTPException(HTTP_500_INTERNAL_SERVER_ERROR,
                                   Get(res, "error", "ML analysis failed")))
                ELSE Return(res))

get_summary(out) ==
    ExceptException(
        IF out.kind = "raise" THEN RaiseOther(out.msg)
        ELSE LET res == out.report
             IN Return([summary |-> Get(res, "summary", EmptyDict),
                        timestamp |-> Get(res, "timestamp", None),
                        status |-> "success"]))

\* The check off by one: 101 passes.
LimitExceededOffByOne(lim) == lim > MaxLimit + 1

LimitExceeded(lim) == lim > MaxLimit

get_top_leads(lim, out) ==
    IF LimitExceeded(lim)
    THEN HTTPException(HTTP_400_BAD_REQUEST, "Limit cannot exceed 100")
    ELSE ExceptException(
        IF out.kind = "raise" THEN RaiseOther(out.msg)
        ELSE LET res == out.report
                 top_leads == SliceTo(Get(res, "top_leads", EmptyList), lim)
             IN Return([top_leads |-> top_leads,
                        count |-> Len(top_leads),
                        timestamp |-> Get(res, "timestamp", None),
                        status |-> "success"]))

\* The view stamped with the time of the response, not the report's.
get_at_risk_leads_FreshTimestamp(out) ==
    ExceptException(
        IF out.kind = "raise" THEN RaiseOther(out.msg)
        ELSE LET res == out.report
             IN Return([at_risk_leads |-> Get(res, "at_risk_leads", EmptyList),
                        count |-> Len(Get(res, "at_risk_leads", EmptyList)),
                        timestamp |-> "now",
                        status |-> "success"]))

get_at_risk_leads(out) ==
    ExceptException(
        IF out.kind = "raise" THEN RaiseOther(out.msg)
        ELSE LET res == out.report
             IN Return([at_risk_leads |-> Get(res, "at_risk_leads", EmptyList),
                        count |-> Len(Get(res, "at_risk_leads", EmptyList)),
                        timestamp |-> Get(res, "timestamp", None),
                        status |-> "success"]))

get_recommendations(out) ==
    ExceptException(
        IF out.kind = "raise" THEN RaiseOther(out.msg)
        ELSE LET res == out.report
             IN Return([recommendations |->
                            Get(res, "recommendations", EmptyList),
                        count |-> Len(Get(res, "recommendations", EmptyList)),
                        timestamp |-> Get(res, "timestamp", None),
                        status |-> "success"]))

complete_geographical_analysis(out) ==
    ExceptHTTPThenException(
        IF out.kind = "raise" THEN RaiseOther(out.msg)
        ELSE LET res == out.report
             IN IF Get(res, "status", None) = "failed"
                THEN RaiseHTTP(HTTPException(HTTP_500_INTERNAL_SERVER_ERROR,
                         Get(res, "error", "Geographical analysis failed")))
                ELSE Return(res))

\* The view without its status check, as the lead-intelligence views are.
get_country_analysis_NoStatusCheck(out) ==
    ExceptException(
        IF out.kind = "raise" THEN RaiseOther(out.msg)
        ELSE LET res == out.report
             IN IF "timestamp" \notin DOMAIN res
                THEN RaiseOther("'timestamp'")
                ELSE Return([country_analysis |->
                                 Get(res, "country_analysis", EmptyDict),
                             timestamp |-> res["timestamp"],
                             status |-> "success"]))

get_country_analysis(out) ==
    ExceptException(
        IF out.kind = "raise" THEN RaiseOther(out.msg)
        ELSE LET res == out.report
             IN IF Get(res, "status", None) = "failed"
                THEN RaiseHTTP(HTTPException(HTTP_500_INTERNAL_SERVER_ERROR,
                                             Get(res, "error", None)))
                ELSE IF "timestamp" \notin DOMAIN res
                THEN RaiseOther("'timestamp'")   \* KeyError
                ELSE Return([country_analysis |->
                                 Get(res, "country_analysis", EmptyDict),
                             timestamp |-> res["timestamp"],
                             status |-> "success"]))

get_market_recommendations(out) ==
    ExceptException(
        IF out.kind = "raise" THEN RaiseOther(out.msg)
        ELSE LET res == out.report
             IN IF Get(res, "status", None) = "failed"
                THEN RaiseHTTP(HTTPException(HTTP_500_INTERNAL_SERVER_ERROR,
                                             Get(res, "error", None)))
                ELSE IF "timestamp" \notin DOMAIN res
                THEN RaiseOther("'timestamp'")   \* KeyError
                ELSE Return([recommendations |->
                                 Get(res, "recommendations", EmptyList),
                             summary |-> Get(res, "summary", EmptyDict),
                             timestamp |-> res["timestamp"],
                             status |-> "success"]))

(***************************************************************************)
(* health_check, as a function of what its four engine calls yielded.      *)
(* A probe records each call: the constructors "ok" or "raise", the        *)
(* connection attempts "true", "false" or "raise"; a call after the first  *)
(* exception is "skipped".                                                 *)
(***************************************************************************)
HealthProbes ==
    {p \in [ml_ctor : {"ok", "raise"},
            ml_connect : {"true", "false", "raise", "skipped"},
            geo_ctor : {"ok", "raise", "skipped"},
            geo_connect : {"true", "false", "raise", "skipped"}] :
        /\ (p.ml_connect = "skipped") <=> (p.ml_ctor = "raise")
        /\ (p.geo_ctor = "skipped") <=> (p.ml_connect \in {"raise", "skipped"})
        /\ (p.geo_connect = "skipped") <=> (p.geo_ctor \in {"raise", "skipped"})}

ProbeRaised(p) ==
    "raise" \in {p.ml_ctor, p.ml_connect, p.geo_ctor, p.geo_connect}

\* datetime.now().isoformat()
Now == "now"

\* db_status computed with `or` in place of `and`.
health_check_Or(p) ==
    IF ProbeRaised(p)
    THEN Ok([status |-> "unhealthy",
             timestamp |-> Now,
             database |-> "disconnected",
             error |-> "pyodbc.Error"])
    ELSE LET ml_status == (p.ml_connect = "true")
             geo_status == (p.geo_connect = "true")
             db_status == IF ml_status \/ geo_status THEN "connected"
                          ELSE "disconnected"
         IN Ok([status |-> "healthy",
                timestamp |-> Now,
                database |-> db_status,
                ml_engine |-> IF ml_status THEN "operational"
                              ELSE "unavailable",
                geo_engine |-> IF geo_status THEN "operational"
                               ELSE "unavailable"])

health_check(p) ==
    IF ProbeRaised(p)
    THEN Ok([status |-> "unhealthy",
             timestamp |-> Now,
             database |-> "disconnected",
             error |-> "pyodbc.Error"])
    ELSE LET ml_status == (p.ml_connect = "true")
             geo_status == (p.geo_connect = "true")
             db_status == IF ml_status /\ geo_status THEN "connected"
                          ELSE "disconnected"
         IN Ok([status |-> "healthy",
                timestamp |-> Now,
                database |-> db_status,
                ml_engine |-> IF ml_status THEN "operational"
                              ELSE "unavailable",
                geo_engine |-> IF geo_status THEN "operational"
                               ELSE "unavailable"])

\* The connections health_check's calls opened: connect_db / connect open one
\* when they return true.
ConnectionsOpened(p) ==
    (IF p.ml_connect = "true" THEN {"ml"} ELSE {})
        \cup (IF p.geo_connect = "true" THEN {"geo"} ELSE {})

\* health_check calls no close / disconnect on either engine before it
\* returns: what its calls opened is what it leaves open.
HeldAfterHealthCheck(p) == ConnectionsOpened(p)

\* A pipeline run owns one connection scope: acquired as the run starts,
\* released on every exit path of the run.
HeldDuringRun == {"repository"}
HeldAfterRun == {}

root == Ok([service |-> "Lead Intelligence API", status |-> "active"])

(***************************************************************************)
(* Dispatch: the response of endpoint ep for path parameter lim and engine *)
(* outcome res.                                                            *)
(***************************************************************************)
Handler(ep, lim, res) ==
    CASE ep = "score_all_leads" -> score_all_leads(res)
      [] ep = "get_summary" -> get_summary(res)
      [] ep = "get_top_leads" -> get_top_leads(lim, res)
      [] ep = "get_at_risk_leads" -> get_at_risk_leads(res)
      [] ep = "get_recommendations" -> get_recommendations(res)
      [] ep = "complete_geographical_analysis" ->
            complete_geographical_analysis(res)
      [] ep = "get_country_analysis" -> get_country_analysis(res)
      [] ep = "get_market_recommendations" -> get_market_recommendations(res)
      [] ep = "health_check" -> health_check(res)
      [] ep = "root" -> root

\* One engine instance kept at module level and used by every request.
SharedEngine(r) == 1

\* Each handler binds a fresh engine to a local: request r uses instance r.
EngineOf(r) == r

NoResult == [kind |-> "none"]
Environment == [DATABASE_SERVER |-> "db.example", DATABASE_NAME |-> "crm"]

LimitsOf(ep) == IF ep = "get_top_leads" THEN Limits ELSE {0}

(***************************************************************************)
(* Initial state: the module is imported, no request has arrived.          *)
(***************************************************************************)
Init ==
    /\ settings = Environment
    /\ strStyle \in {"status_detail", "empty"}
    /\ pc = [r \in Reqs |-> "idle"]
    /\ endpoint = [r \in Reqs |-> "root"]
    /\ limit = [r \in Reqs |-> 0]
    /\ engine = [e \in Reqs |-> NoResult]
    /\ results = [r \in Reqs |-> NoResult]
    /\ response = [r \in Reqs |-> NoResponse]
    /\ constructed = [r \in Reqs |-> FALSE]
    /\ invoked = [r \in Reqs |-> FALSE]
    /\ held = [r \in Reqs |-> {}]
    /\ own = [r \in Reqs |-> NoResult]

(***************************************************************************)
(* Steps of a request                                                      *)
(***************************************************************************)
\* A request for route ep arrives at worker r (which is idle or has answered
\* its previous request).
Arrive(r, ep, lim) ==
    /\ pc[r] \in {"idle", "done"}
    /\ pc' = [pc EXCEPT ![r] = "entered"]
    /\ endpoint' = [endpoint EXCEPT ![r] = ep]
    /\ limit' = [limit EXCEPT ![r] = lim]
    /\ results' = [results EXCEPT ![r] = NoResult]
    /\ response' = [response EXCEPT ![r] = NoResponse]
    /\ constructed' = [constructed EXCEPT ![r] = FALSE]
    /\ invoked' = [invoked EXCEPT ![r] = FALSE]
    /\ held' = [held EXCEPT ![r] = {}]
    /\ own' = [own EXCEPT ![r] = NoResult]
    /\ UNCHANGED <<settings, strStyle, engine>>

\* root(): a fixed description of the service.
Root(r) ==
    /\ pc[r] = "entered"
    /\ endpoint[r] = "root"
    /\ response' = [response EXCEPT ![r] = Handler("root", limit[r], NoResult)]
    /\ pc' = [pc EXCEPT ![r] = "done"]
    /\ UNCHANGED <<settings, strStyle, endpoint, limit, engine, results,
                   constructed, invoked, held, own>>

\* get_top_leads: the limit check, ahead of the try block.
RejectLimit(r) ==
    /\ pc[r] = "entered"
    /\ endpoint[r] = "get_top_leads"
    /\ LimitExceeded(limit[r])
    /\ response' = [response EXCEPT
                       ![r] = Handler(endpoint[r], limit[r], NoResult)]
    /\ pc' = [pc EXCEPT ![r] = "done"]
    /\ UNCHANGED <<settings, strStyle, endpoint, limit, engine, results,
                   constructed, invoked, held, own>>

\* engine = AIMLModelsEngine(server=settings..., ...) or the geo engine: the
\* constructor returns an instance, or raises.
Construct(r) ==
    /\ pc[r] = "entered"
    /\ endpoint[r] \in PipelineEndpoints
    /\ ~(endpoint[r] = "get_top_leads" /\ LimitExceeded(limit[r]))
    /\ \/ /\ constructed' = [constructed EXCEPT ![r] = TRUE]
          /\ pc' = [pc EXCEPT ![r] = "constructed"]
          /\ UNCHANGED results
       \/ /\ \E m \in ExceptionMessages :
                results' = [results EXCEPT ![r] = Raised(m)]
          /\ pc' = [pc EXCEPT ![r] = "ran"]
          /\ UNCHANGED constructed
    /\ UNCHANGED <<settings, strStyle, endpoint, limit, engine, response,
                   invoked, held, own>>

\* engine.run_all_models() / geo_engine.run_complete_analysis() is entered:
\* the run acquires its connection and works towards outcome o.
Invoke(r, o) ==
    /\ pc[r] = "constructed"
    /\ invoked' = [invoked EXCEPT ![r] = TRUE]
    /\ engine' = [engine EXCEPT ![EngineOf(r)] = o]
    /\ own' = [own EXCEPT ![r] = o]
    /\ held' = [held EXCEPT ![r] = HeldDuringRun]
    /\ pc' = [pc EXCEPT ![r] = "running"]
    /\ UNCHANGED <<settings, strStyle, endpoint, limit, results, response,
                   constructed>>

\* The run ends: the engine hands what it holds to the handler's local
\* `results` (or raises) and keeps nothing; its connection scope is closed.
Finish(r) ==
    /\ pc[r] = "running"
    /\ engine[EngineOf(r)] # NoResult
    /\ results' = [results EXCEPT ![r] = engine[EngineOf(r)]]
    /\ engine' = [engine EXCEPT ![EngineOf(r)] = NoResult]
    /\ held' = [held EXCEPT ![r] = HeldAfterRun]
    /\ pc' = [pc EXCEPT ![r] = "ran"]
    /\ UNCHANGED <<settings, strStyle, endpoint, limit, response,
                   constructed, invoked, own>>

\* health_check's try block: both engines built and both connections tried,
\* up to the first exception.
HealthProbe(r, p) ==
    /\ pc[r] = "entered"
    /\ endpoint[r] = "health_check"
    /\ results' = [results EXCEPT ![r] = p]
    /\ constructed' = [constructed EXCEPT ![r] = (p.ml_ctor = "ok")]
    /\ held' = [held EXCEPT ![r] = HeldAfterHealthCheck(p)]
    /\ pc' = [pc EXCEPT ![r] = "ran"]
    /\ UNCHANGED <<settings, strStyle, endpoint, limit, engine, response,
                   invoked, own>>

\* The handler shapes its response from `results` and returns or raises.
Respond(r) ==
    /\ pc[r] = "ran"
    /\ response' = [response EXCEPT
                       ![r] = Handler(endpoint[r], limit[r], results[r])]
    /\ pc' = [pc EXCEPT ![r] = "done"]
    /\ UNCHANGED <<settings, strStyle, endpoint, limit, engine, results,
                   constructed, invoked, held, own>>

(***************************************************************************)
(* Spec: one worker, every route and every engine outcome.                 *)
(***************************************************************************)
\* The single worker: the first request slot.
Worker == CHOOSE r \in Reqs : \A q \in Reqs : r <= q

Next ==
    \/ \E ep \in Endpoints : \E lim \in LimitsOf(ep) : Arrive(Worker, ep, lim)
    \/ Root(Worker)
    \/ RejectLimit(Worker)
    \/ Construct(Worker)
    \/ \E o \in OutcomesOf(endpoint[Worker]) : Invoke(Worker, o)
    \/ Finish(Worker)
    \/ \E p \in HealthProbes : HealthProbe(Worker, p)
    \/ Respond(Worker)

Spec == Init /\ [][Next]_vars

(***************************************************************************)
(* SpecConc: NumReq requests interleaved at every step, over a smaller set *)
(* of routes and outcomes.                                                 *)
(***************************************************************************)
ConcEndpoints == {"score_all_leads", "get_top_leads", "get_country_analysis",
                  "health_check", "root"}
ConcLimits == {1, MaxLimit + 1}

ConcOutcomes(ep) ==
    (IF ep \in MLEndpoints
     THEN {Returned(rep) : rep \in {x \in MLSuccessReports :
                                       /\ Len(x.top_leads) = MaxLeads
                                       /\ x.top_leads[1] = 90
                                       /\ x.top_leads[MaxLeads] = 90
                                       /\ x.at_risk_leads = <<>>
                                       /\ x.recommendations = <<>>
                                       /\ x.timestamp = "2026-01-01T00:00:00"}}
     ELSE {Returned(rep) : rep \in {x \in GeoSuccessReports :
                                       /\ x.country_analysis # <<>>
                                       /\ x.recommendations = <<>>
                                       /\ x.summary = <<>>
                                       /\ x.timestamp = "2026-01-01T00:00:00"}})
        \cup {Returned([status |-> "failed",
                        error |-> "Database connection failed"])}

ConcProbes ==
    {p \in HealthProbes :
        p.ml_connect = "true" /\ p.geo_connect \in {"true", "false"}}

NextConc ==
    \E r \in Reqs :
        \/ \E ep \in ConcEndpoints :
              \E lim \in LimitsOf(ep) \cap (ConcLimits \cup {0}) :
                  Arrive(r, ep, lim)
        \/ Root(r)
        \/ RejectLimit(r)
        \/ Construct(r)
        \/ \E o \in ConcOutcomes(endpoint[r]) : Invoke(r, o)
        \/ Finish(r)
        \/ \E p \in ConcProbes : HealthProbe(r, p)
        \/ Respond(r)

SpecConc == Init /\ [][NextConc]_vars

(***************************************************************************)
(* Properties                                                              *)
(***************************************************************************)
Done(r) == pc[r] = "done"

\* Request r's own pipeline run returned a report (it did not raise).
RunReturned(r) == invoked[r] /\ own[r].kind = "return"
RunFailed(r) == RunReturned(r) /\ Get(own[r].report, "status", None) = "failed"
RunSucceeded(r) ==
    RunReturned(r) /\ Get(own[r].report, "status", None) = "success"

\* C1: a top-leads request with limit > 100 is answered 400 "Limit cannot
\* exceed 100" and, at every point of that request, no engine has been
\* constructed and the pipeline has not been invoked.
C1_OverLimitRejectedBeforeComputation ==
    \A r \in Reqs :
        (pc[r] # "idle" /\ endpoint[r] = "get_top_leads" /\ limit[r] > 100) =>
            /\ ~constructed[r]
            /\ ~invoked[r]
            /\ pc[r] \in {"entered", "done"}
            /\ Done(r) => response[r] = [status_code |-> 400,
                                         detail |-> "Limit cannot exceed 100"]

C1_Witness ==
    \E r \in Reqs :
        /\ Done(r) /\ endpoint[r] = "get_top_leads" /\ limit[r] = 101
        /\ response[r].status_code = 400
        /\ ~constructed[r]

\* C2 (as claimed): on each of the five lead-intelligence endpoints, when
\* run_all_models returned a report with status failed the client gets an
\* error response carrying an error string, never a 200 with status success.
C2_FailedMLRunIsAnError ==
    \A r \in Reqs :
        (Done(r) /\ endpoint[r] \in MLEndpoints /\ RunFailed(r)) =>
            /\ response[r].status_code >= 400
            /\ "detail" \in DOMAIN response[r]

\* C3: on each of the three geographical endpoints, when
\* run_complete_analysis returned a report with status failed, or raised,
\* the response is an HTTP 500 error (and so never a success body).
C3_FailedGeoRunIs500 ==
    \A r \in Reqs :
        (/\ Done(r) /\ endpoint[r] \in GeoEndpoints /\ invoked[r]
         /\ (own[r].kind = "raise" \/ RunFailed(r))) =>
            /\ response[r].status_code = 500
            /\ "body" \notin DOMAIN response[r]

C3_Witness ==
    \E r \in Reqs :
        /\ Done(r) /\ endpoint[r] = "get_country_analysis" /\ RunFailed(r)
        /\ "timestamp" \in DOMAIN own[r].report
        /\ response[r].status_code = 500

\* C4: for a limit in 0..100 and a successful report whose top_leads has n
\* entries, top-leads answers 200 with exactly the first min(limit, n)
\* entries in the report's order, and count is the length of that list.
C4_TopLeadsIsPrefix ==
    \A r \in Reqs :
        (/\ Done(r) /\ endpoint[r] = "get_top_leads"
         /\ limit[r] \in 0..100
         /\ RunSucceeded(r) /\ "top_leads" \in DOMAIN own[r].report) =>
            LET all == own[r].report.top_leads
                k == IF limit[r] < Len(all) THEN limit[r] ELSE Len(all)
            IN /\ response[r].status_code = 200
               /\ Len(response[r].body.top_leads) = k
               /\ \A i \in 1..k : response[r].body.top_leads[i] = all[i]
               /\ response[r].body.count = Len(response[r].body.top_leads)

\* Scores {90, 60, 30} with limit 2 yield [90, 60].
C4_Witness ==
    \E r \in Reqs :
        /\ Done(r) /\ endpoint[r] = "get_top_leads" /\ limit[r] = 2
        /\ RunSucceeded(r) /\ "top_leads" \in DOMAIN own[r].report
        /\ own[r].report.top_leads = <<90, 60, 30>>
        /\ response[r].body.top_leads = <<90, 60>>
        /\ response[r].body.count = 2

\* C5 (as claimed): for every limit top-leads accepts (not rejected by the
\* limit > 100 check; zero and negative values included), the number of
\* leads returned is at most limit.
C5_AtMostLimitLeads ==
    \A r \in Reqs :
        (/\ Done(r) /\ endpoint[r] = "get_top_leads"
         /\ response[r].status_code = 200) =>
            Len(response[r].body.top_leads) <= limit[r]

\* The fields a view endpoint copies from the report.
ViewFields(ep) ==
    CASE ep = "get_summary" -> {"summary", "timestamp"}
      [] ep = "get_top_leads" -> {"timestamp"}
      [] ep = "get_at_risk_leads" -> {"at_risk_leads", "timestamp"}
      [] ep = "get_recommendations" -> {"recommendations", "timestamp"}
      [] ep = "get_country_analysis" -> {"country_analysis", "timestamp"}
      [] ep = "get_market_recommendations" ->
            {"recommendations", "summary", "timestamp"}
      [] OTHER -> {}

\* C6: after a successful run, score-all-leads and geographical-analysis
\* answer 200 with the engine's report itself, and a view endpoint answers
\* 200 with each copied field equal to the report's field of the same name
\* (when the report has the fields the view reads).
C6_SuccessForwardedVerbatim ==
    \A r \in Reqs :
        (Done(r) /\ endpoint[r] \in PipelineEndpoints /\ RunSucceeded(r)) =>
            LET rep == own[r].report
                fields == ViewFields(endpoint[r])
            IN IF endpoint[r] \in {"score_all_leads",
                                   "complete_geographical_analysis"}
               THEN response[r] = [status_code |-> 200, body |-> rep]
               ELSE /\ (fields \subseteq DOMAIN rep) =>
                           response[r].status_code = 200
                    /\ (response[r].status_code = 200) =>
                           \A f \in fields \cap DOMAIN rep :
                               response[r].body[f] = rep[f]

C6_Witness ==
    \E r \in Reqs :
        /\ Done(r) /\ endpoint[r] = "get_at_risk_leads" /\ RunSucceeded(r)
        /\ "at_risk_leads" \in DOMAIN own[r].report
        /\ own[r].report.at_risk_leads # <<>>
        /\ response[r].status_code = 200
        /\ response[r].body.at_risk_leads = own[r].report.at_risk_leads
        /\ response[r].body.timestamp = "2026-01-02T00:00:00"

\* C7 (as claimed): when a request has finished, on every exit path, every
\* repository connection it acquired has been released; in particular
\* after health_check returns neither of its two connections is held.
C7_ConnectionsReleasedAtExit ==
    \A r \in Reqs : Done(r) => held[r] = {}

\* C8: under every interleaving, settings keeps its start-up value, the
\* handler's `results` is what the request's own engine run produced, and
\* the response is derived from that run alone.
C8_RequestsAreIsolated ==
    /\ settings = [DATABASE_SERVER |-> "db.example", DATABASE_NAME |-> "crm"]
    /\ \A r \in Reqs :
          /\ (pc[r] \in {"ran", "done"} /\ invoked[r]) => results[r] = own[r]
          /\ (Done(r) /\ invoked[r]) =>
                response[r] = Handler(endpoint[r], limit[r], own[r])

\* One request's run has ended while another, with a different outcome, is
\* still in flight.
C8_Witness ==
    \E r1, r2 \in Reqs :
        /\ r1 # r2
        /\ pc[r1] = "running" /\ pc[r2] = "done" /\ invoked[r2]
        /\ endpoint[r1] = endpoint[r2]
        /\ own[r1] # own[r2]
        /\ response[r2] = Handler(endpoint[r2], limit[r2], own[r2])

\* The message an endpoint falls back on when a failed report has no error.
DefaultDetail(ep) ==
    CASE ep = "score_all_leads" -> "ML analysis failed"
      [] ep = "complete_geographical_analysis" ->
            "Geographical analysis failed"
      [] OTHER -> "Internal Server Error"

\* C9 (as claimed): on score-all-leads, geographical-analysis, countries and
\* market-recommendations, the 500 raised for a failed report carries
\* exactly the report's error string (the endpoint's default when the
\* report has none).
C9_FailedDetailIsReportError ==
    \A r \in Reqs :
        (/\ Done(r) /\ RunFailed(r)
         /\ endpoint[r] \in {"score_all_leads",
                             "complete_geographical_analysis",
                             "get_country_analysis",
                             "get_market_recommendations"}
         /\ response[r].status_code = 500) =>
            response[r].detail =
                IF "error" \in DOMAIN own[r].report
                THEN own[r].report.error
                ELSE DefaultDetail(endpoint[r])

\* C10: health_check always returns (status 200).  Its status is unhealthy,
\* with database disconnected, exactly when a constructor or a connection
\* attempt raised; otherwise it is healthy, database is connected iff both
\* attempts returned true, and ml_engine / geo_engine are operational iff
\* their own attempt returned true.
C10_HealthCheckReport ==
    \A r \in Reqs :
        (Done(r) /\ endpoint[r] = "health_check") =>
            LET p == results[r]
                b == response[r].body
                raised == \/ p.ml_ctor = "raise" \/ p.ml_connect = "raise"
                          \/ p.geo_ctor = "raise" \/ p.geo_connect = "raise"
            IN /\ response[r].status_code = 200
               /\ b.status \in {"healthy", "unhealthy"}
               /\ (b.status = "unhealthy") <=> raised
               /\ (b.status = "unhealthy") => b.database = "disconnected"
               /\ (b.status = "healthy") =>
                     /\ (b.database = "connected") <=>
                            (p.ml_connect = "true" /\ p.geo_connect = "true")
                     /\ b.database \in {"connected", "disconnected"}
                     /\ (b.ml_engine = "operational") <=> (p.ml_connect = "true")
                     /\ (b.geo_engine = "operational") <=>
                            (p.geo_connect = "true")

\* A healthy response that reports the database disconnected.
C10_Witness ==
    \E r \in Reqs :
        /\ Done(r) /\ endpoint[r] = "health_check"
        /\ response[r].body.status = "healthy"
        /\ response[r].body.database = "disconnected"

====
